---- MODULE Spec2Model ----
(***************************************************************************)
(* Model of the indicator-and-signal pipeline of trading-pivot-points      *)
(* (server/services/pivotCalculator.ts).                                   *)
(*                                                                         *)
(* Arrays are functions over 0..n-1, so that indices are the source's.     *)
(* Prices are integers.  The source computes in floating point; the model  *)
(* computes the same expressions exactly: a derived value v (an ATR, a     *)
(* smoothed average, a trendline bound) is held as the integer v * Unit,   *)
(* Unit = 14^FracDigits, written as a sequence of limbs (least significant *)
(* first) because it exceeds the 32-bit integers of the model checker.     *)
(* Every division of the pipeline is by 14, so it is exact in this         *)
(* representation.  An RSI is held as the fraction <<num, den>>.           *)
(***************************************************************************)
EXTENDS Integers, Sequences, FiniteSets, TLC

----------------------------------------------------------------------------
(* Program constants *)

RSI_PERIOD == 14
ATR_PERIOD == 14
PIVOT_LENGTH == 14
SLOPE_DIV == 14
\* the fewest bars in which a pivot can be detected
MinBarsForPivot == 2 * 14 + 1
\* the warm-up threshold taken one bar too low
MinBarsOffByOne == 30 - 1
\* the entries a search history keeps
HISTORY_LIMIT == 10
\* the values of ctx.userId
UserIds == {1, 2}

MIN_BARS == 30
RSI_OVERBOUGHT == 70
RSI_OVERSOLD == 30

(* Bounds of the model *)

\* Longest bar sequence given to calculatePivotData.
MaxBars == 31
\* calculatePivotPoints is also applied alone, to every sequence of at most
\* MaxScanBars bars over the prices ScanPrices, with the windows 1..MaxScanLength.
MaxScanBars == 5
MaxScanLength == 2
ScanPrices == {1, 2}
\* getLatestSignal is also applied alone, to every enriched sequence of at most
\* MaxSummaryBars bars with datetimes among 1..MaxSummaryBars and the invalid
\* Date.
MaxSummaryBars == 3
\* calculateRSI, calculateATR and calculateAMA are also applied alone, with the
\* periods IndicatorPeriods, to every sequence of at most MaxIndicatorBars bars
\* of the kinds LongKinds and of at most 3 bars of the kinds ShortKinds.
MaxIndicatorBars == 8
\* the tickers the first user searches for: one more than a history keeps
MaxTickers == 11
\* the tickers the other user searches for
MaxOtherTickers == 3
\* the alerts created in a run
MaxAlerts == 4
IndicatorPeriods == {1, 2, 7}

----------------------------------------------------------------------------
(* Exact arithmetic *)

NULL == <<-1>>

Base == 10^6

\* Number of base-14 fractional digits: index i of a smoothed series has been
\* divided by 14 at most i - 12 times, and the slope once more.
FracDigits == MaxBars - 11

Len0(a) == Cardinality(DOMAIN a)

Max2(a, b) == IF a >= b THEN a ELSE b
Abs(x) == IF x < 0 THEN -x ELSE x

RECURSIVE BigOfInt(_)
BigOfInt(k) == IF k = 0 THEN <<>> ELSE <<k % Base>> \o BigOfInt(k \div Base)

RECURSIVE BigAddC(_, _, _)
BigAddC(a, b, carry) ==
  IF a = <<>> /\ b = <<>>
  THEN (IF carry = 0 THEN <<>> ELSE <<carry>>)
  ELSE LET x == IF a = <<>> THEN 0 ELSE Head(a)
           y == IF b = <<>> THEN 0 ELSE Head(b)
           s == x + y + carry
       IN <<s % Base>> \o BigAddC(IF a = <<>> THEN <<>> ELSE Tail(a),
                                  IF b = <<>> THEN <<>> ELSE Tail(b),
                                  s \div Base)

BigAdd(a, b) == BigAddC(a, b, 0)

RECURSIVE BigMulC(_, _, _)
BigMulC(a, k, carry) ==
  IF a = <<>>
  THEN BigOfInt(carry)
  ELSE LET s == Head(a) * k + carry
       IN <<s % Base>> \o BigMulC(Tail(a), k, s \div Base)

\* a * k for an integer 0 <= k < 2000
BigMul(a, k) == IF k = 0 THEN <<>> ELSE BigMulC(a, k, 0)

\* <<quotient limbs (not normalised), remainder>> of a \div k, from the top limb down
RECURSIVE BigDivR(_, _)
BigDivR(a, k) ==
  IF a = <<>>
  THEN <<(<<>>), 0>>
  ELSE LET hi == BigDivR(Tail(a), k)
           cur == hi[2] * Base + Head(a)
       IN <<(<<cur \div k>> \o hi[1]), cur % k>>

RECURSIVE BigTrim(_)
BigTrim(a) ==
  IF a = <<>> THEN <<>>
  ELSE IF a[Len(a)] = 0 THEN BigTrim(SubSeq(a, 1, Len(a) - 1))
  ELSE a

\* a \div k for 0 < k < 2000
BigDiv(a, k) == BigTrim(BigDivR(a, k)[1])
BigRem(a, k) == BigDivR(a, k)[2]

RECURSIVE BigLessFrom(_, _, _)
BigLessFrom(a, b, i) ==
  IF i = 0 THEN FALSE
  ELSE IF a[i] # b[i] THEN a[i] < b[i]
  ELSE BigLessFrom(a, b, i - 1)

BigLess(a, b) ==
  IF Len(a) # Len(b) THEN Len(a) < Len(b) ELSE BigLessFrom(a, b, Len(a))

RECURSIVE BigPow14(_)
BigPow14(e) == IF e = 0 THEN <<1>> ELSE BigMul(BigPow14(e - 1), 14)

Unit == BigPow14(FracDigits)

\* The fixed-point value of the integer k >= 0
Fix(k) == BigMul(Unit, k)

\* Signed values are pairs <<p, m>> standing for p - m.
SFix(k) == IF k >= 0 THEN <<Fix(k), <<>>>> ELSE <<<<>>, Fix(-k)>>
SSub(x, d) == <<x[1], BigAdd(x[2], d)>>
SAdd(x, d) == <<BigAdd(x[1], d), x[2]>>
SLess(x, y) == BigLess(BigAdd(x[1], y[2]), BigAdd(y[1], x[2]))
SEq(x, y) == BigAdd(x[1], y[2]) = BigAdd(y[1], x[2])

----------------------------------------------------------------------------
(* Arrays *)

\* The array (a function over 0..n-1) holding the elements of the sequence s
Arr(s) == [i \in 0..(Len(s) - 1) |-> s[i + 1]]

Fill(n, v) == [i \in 0..(n - 1) |-> v]

Bar(t, o, h, l, c, v) ==
  [datetime |-> t, open |-> o, high |-> h, low |-> l, close |-> c, volume |-> v]

----------------------------------------------------------------------------
(* calculatePivotPoints *)

\* The left-side and right-side loops over j, leaving at the first neighbour
\* that is not strictly lower (higher).
RECURSIVE NoHighFrom(_, _, _, _)
NoHighFrom(data, currentHigh, j, last) ==
  IF j > last THEN TRUE
  ELSE IF data[j].high >= currentHigh THEN FALSE
  ELSE NoHighFrom(data, currentHigh, j + 1, last)

RECURSIVE NoLowFrom(_, _, _, _)
NoLowFrom(data, currentLow, j, last) ==
  IF j > last THEN TRUE
  ELSE IF data[j].low <= currentLow THEN FALSE
  ELSE NoLowFrom(data, currentLow, j + 1, last)

\* equal highs let pass on both sides
IsPivotHighWeak(data, i, length) ==
  \A j \in (i - length)..(i + length) : data[j].high <= data[i].high

\* a left side that lets an equal high pass
IsPivotHighTies(data, i, length) ==
  /\ \A j \in (i - length)..(i - 1) : data[j].high <= data[i].high
  /\ NoHighFrom(data, data[i].high, i + 1, i + length)

IsPivotHigh(data, i, length) ==
  /\ NoHighFrom(data, data[i].high, i - length, i - 1)
  /\ NoHighFrom(data, data[i].high, i + 1, i + length)

IsPivotLow(data, i, length) ==
  /\ NoLowFrom(data, data[i].low, i - length, i - 1)
  /\ NoLowFrom(data, data[i].low, i + 1, i + length)

\* The indices the two outer loops visit: length <= i < n - length
ScanRange(n, length) == {i \in 0..(n - 1) : i >= length /\ i < n - length}

Min2(a, b) == IF a <= b THEN a ELSE b

\* A scan that visits every index and clips the window to the array
CalculatePivotPointsClipped(data, length) ==
  LET n == Len0(data)
      lo(i) == Max2(0, i - length)
      hi(i) == Min2(n - 1, i + length)
  IN [pivotHigh |-> [i \in 0..(n - 1) |->
                       /\ NoHighFrom(data, data[i].high, lo(i), i - 1)
                       /\ NoHighFrom(data, data[i].high, i + 1, hi(i))],
      pivotLow  |-> [i \in 0..(n - 1) |->
                       /\ NoLowFrom(data, data[i].low, lo(i), i - 1)
                       /\ NoLowFrom(data, data[i].low, i + 1, hi(i))]]

CalculatePivotPoints(data, length) ==
  LET n == Len0(data)
  IN [pivotHigh |-> [i \in 0..(n - 1) |->
                       IF i \in ScanRange(n, length)
                       THEN IsPivotHigh(data, i, length) ELSE FALSE],
      pivotLow  |-> [i \in 0..(n - 1) |->
                       IF i \in ScanRange(n, length)
                       THEN IsPivotLow(data, i, length) ELSE FALSE]]

----------------------------------------------------------------------------
(* calculateRSI, calculateATR, calculateAMA *)

Closes(d) == [i \in DOMAIN d |-> d[i].close]
Highs(d) == [i \in DOMAIN d |-> d[i].high]
Lows(d) == [i \in DOMAIN d |-> d[i].low]

RECURSIVE SumTo(_, _, _)
SumTo(f, from, to) == IF from > to THEN 0 ELSE f[from] + SumTo(f, from + 1, to)

\* a neutral 50 when there is neither gain nor loss
RsiValueFlatFifty(avgGain, avgLoss) ==
  IF avgLoss = <<>>
  THEN (IF avgGain = <<>> THEN <<BigOfInt(50), BigOfInt(1)>>
        ELSE <<BigOfInt(100), BigOfInt(1)>>)
  ELSE <<BigMul(avgGain, 100), BigAdd(avgGain, avgLoss)>>

\* the quotient taken without the test for a zero average loss
RsiValueNoClamp(avgGain, avgLoss) ==
  <<BigMul(avgGain, 100), BigAdd(avgGain, avgLoss)>>

\* 100 - 100 / (1 + avgGain / avgLoss), which is 100 * avgGain / (avgGain + avgLoss)
RsiValue(avgGain, avgLoss) ==
  IF avgLoss = <<>>
  THEN <<BigOfInt(100), BigOfInt(1)>>
  ELSE <<BigMul(avgGain, 100), BigAdd(avgGain, avgLoss)>>

\* rsi > k, rsi < k for a defined rsi and an integer k
RsiGT(r, k) == BigLess(BigMul(r[2], k), r[1])
RsiLT(r, k) == BigLess(r[1], BigMul(r[2], k))

CalculateRSI(closes, period) ==
  LET n == Len0(closes)
      change == [i \in 1..(n - 1) |-> closes[i] - closes[i - 1]]
      gain == [i \in 1..(n - 1) |-> IF change[i] > 0 THEN change[i] ELSE 0]
      loss == [i \in 1..(n - 1) |-> IF change[i] < 0 THEN Abs(change[i]) ELSE 0]
      \* the smoothed averages <<avgGain, avgLoss>> after index i, as a sequence
      \* whose k-th element belongs to index period + k - 1
      RECURSIVE Smooth(_, _)
      Smooth(i, acc) ==
        IF i >= n THEN acc
        ELSE LET prev == acc[Len(acc)]
             IN Smooth(i + 1, Append(acc,
                  <<BigDiv(BigAdd(BigMul(prev[1], period - 1), Fix(gain[i])), period),
                    BigDiv(BigAdd(BigMul(prev[2], period - 1), Fix(loss[i])), period)>>))
      avg == Smooth(period + 1,
                    << <<BigDiv(Fix(SumTo(gain, 1, period)), period),
                         BigDiv(Fix(SumTo(loss, 1, period)), period)>> >>)
  IN IF n < period + 1
     THEN Fill(n, NULL)
     ELSE [i \in 0..(n - 1) |->
             IF i < period THEN NULL
             ELSE RsiValue(avg[i - period + 1][1], avg[i - period + 1][2])]

TrueRange(highs, lows, closes, i) ==
  IF i = 0
  THEN highs[i] - lows[i]
  ELSE Max2(highs[i] - lows[i],
            Max2(Abs(highs[i] - closes[i - 1]), Abs(lows[i] - closes[i - 1])))

\* the plain mean of the last `period` true ranges at every index
CalculateATRUnsmoothed(highs, lows, closes, period) ==
  LET n == Len0(highs)
      trueRanges == [i \in 0..(n - 1) |-> TrueRange(highs, lows, closes, i)]
  IN [i \in 0..(n - 1) |->
        IF i < period - 1 THEN NULL
        ELSE BigDiv(Fix(SumTo(trueRanges, i - period + 1, i)), period)]

CalculateATR(highs, lows, closes, period) ==
  LET n == Len0(highs)
      trueRanges == [i \in 0..(n - 1) |-> TrueRange(highs, lows, closes, i)]
      \* the k-th element belongs to index period - 2 + k
      RECURSIVE Smooth(_, _)
      Smooth(i, acc) ==
        IF i >= n THEN acc
        ELSE Smooth(i + 1, Append(acc,
               BigDiv(BigAdd(BigMul(acc[Len(acc)], period - 1), Fix(trueRanges[i])),
                      period)))
      atr == IF n < period THEN <<>>
             ELSE Smooth(period, <<BigDiv(Fix(SumTo(trueRanges, 0, period - 1)), period)>>)
  IN [i \in 0..(n - 1) |-> IF i < period - 1 THEN NULL ELSE atr[i - period + 2]]

\* Only the presence of each entry is modelled: the value needs a square root
\* (the rolling standard deviation), which has no exact representation here.
PRESENT == <<0, 0, 0>>

\* no value before the first full window
CalculateAMAWarmUp(closes, window) ==
  LET n == Len0(closes)
  IN [i \in 0..(n - 1) |-> IF i < window - 1 THEN NULL ELSE PRESENT]

CalculateAMA(closes, window) ==
  LET n == Len0(closes)
  IN IF n < window THEN Fill(n, NULL) ELSE Fill(n, PRESENT)

----------------------------------------------------------------------------
(* calculatePivotData: the trendlines *)

\* the slope of the bars without ATR taken from the first bar that has one
SlopeBackfilled(atr) ==
  LET defined == {i \in DOMAIN atr : atr[i] # NULL}
      first == CHOOSE i \in defined : \A j \in defined : i <= j
  IN [i \in DOMAIN atr |->
        IF atr[i] # NULL THEN BigDiv(atr[i], SLOPE_DIV)
        ELSE IF defined = {} THEN <<>>
        ELSE BigDiv(atr[first], SLOPE_DIV)]

Slope(atr) ==
  [i \in DOMAIN atr |-> IF atr[i] # NULL THEN BigDiv(atr[i], SLOPE_DIV) ELSE <<>>]

\* the slope of the current bar, not the one carried from the last pivot
SlopeAtPivotCurrent(pivot, slope) == slope

\* slopePh (slopePl): the slope at the most recent pivot, seeded with slope[0]
SlopeAtPivot(pivot, slope) ==
  LET n == Len0(slope)
      RECURSIVE Loop(_, _)
      Loop(i, acc) ==
        IF i >= n THEN acc
        ELSE Loop(i + 1, Append(acc, IF pivot[i] THEN slope[i] ELSE acc[Len(acc)]))
  IN Arr(Loop(1, <<slope[0]>>))

OrElse(v, d) == IF v # NULL THEN v ELSE d

\* the upper line reset at a pivot high only when that raises it
UpperLineKeepsHigher(pivotHigh, highs, slopePh) ==
  LET n == Len0(highs)
      RECURSIVE Loop(_, _)
      Loop(i, acc) ==
        IF i >= n THEN acc
        ELSE Loop(i + 1, Append(acc,
               IF pivotHigh[i]
               THEN (IF SLess(SFix(highs[i]), acc[Len(acc)]) THEN acc[Len(acc)]
                     ELSE SFix(highs[i]))
               ELSE SSub(OrElse(acc[Len(acc)], SFix(highs[i])), slopePh[i])))
  IN Arr(Loop(1, <<SFix(highs[0])>>))

\* the upper line moved up by the carried slope instead of down
UpperLineRising(pivotHigh, highs, slopePh) ==
  LET n == Len0(highs)
      RECURSIVE Loop(_, _)
      Loop(i, acc) ==
        IF i >= n THEN acc
        ELSE Loop(i + 1, Append(acc,
               IF pivotHigh[i] THEN SFix(highs[i])
               ELSE SAdd(OrElse(acc[Len(acc)], SFix(highs[i])), slopePh[i])))
  IN Arr(Loop(1, <<SFix(highs[0])>>))

UpperLine(pivotHigh, highs, slopePh) ==
  LET n == Len0(highs)
      RECURSIVE Loop(_, _)
      Loop(i, acc) ==
        IF i >= n THEN acc
        ELSE Loop(i + 1, Append(acc,
               IF pivotHigh[i] THEN SFix(highs[i])
               ELSE SSub(OrElse(acc[Len(acc)], SFix(highs[i])), slopePh[i])))
  IN Arr(Loop(1, <<SFix(highs[0])>>))

LowerLine(pivotLow, lows, slopePl) ==
  LET n == Len0(lows)
      RECURSIVE Loop(_, _)
      Loop(i, acc) ==
        IF i >= n THEN acc
        ELSE Loop(i + 1, Append(acc,
               IF pivotLow[i] THEN SFix(lows[i])
               ELSE SAdd(OrElse(acc[Len(acc)], SFix(lows[i])), slopePl[i])))
  IN Arr(Loop(1, <<SFix(lows[0])>>))

----------------------------------------------------------------------------
(* calculatePivotData: breakout flags and signals *)

\* breakouts counted only once a pivot high has set the upper bound
UposNeedsPivot(pivotHigh, upper, closes) ==
  [i \in DOMAIN closes |->
     IF i >= 1 /\ ~pivotHigh[i] /\ upper[i - 1] # NULL
          /\ (\E k \in 0..(i - 1) : pivotHigh[k])
          /\ SLess(upper[i - 1], SFix(closes[i]))
     THEN 1 ELSE 0]

\* a running count of the breakouts
UposCumulative(pivotHigh, upper, closes) ==
  LET n == Len0(closes)
      RECURSIVE Loop(_, _)
      Loop(i, acc) ==
        IF i >= n THEN acc
        ELSE Loop(i + 1, Append(acc,
               IF ~pivotHigh[i] /\ upper[i - 1] # NULL
                    /\ SLess(upper[i - 1], SFix(closes[i]))
               THEN acc[Len(acc)] + 1 ELSE acc[Len(acc)]))
  IN Arr(Loop(1, <<0>>))

\* the flag taken against the bound of the same bar
UposCurrentBound(pivotHigh, upper, closes) ==
  [i \in DOMAIN closes |->
     IF i >= 1 /\ ~pivotHigh[i] /\ upper[i] # NULL
          /\ SLess(upper[i], SFix(closes[i]))
     THEN 1 ELSE 0]

Upos(pivotHigh, upper, closes) ==
  [i \in DOMAIN closes |->
     IF i >= 1 /\ ~pivotHigh[i] /\ upper[i - 1] # NULL
          /\ SLess(upper[i - 1], SFix(closes[i]))
     THEN 1 ELSE 0]

\* the downward flag set on pivot-low bars too
DnosAtPivots(pivotLow, lower, closes) ==
  [i \in DOMAIN closes |->
     IF i >= 1 /\ lower[i - 1] # NULL /\ SLess(SFix(closes[i]), lower[i - 1])
     THEN 1 ELSE 0]

Dnos(pivotLow, lower, closes) ==
  [i \in DOMAIN closes |->
     IF i >= 1 /\ ~pivotLow[i] /\ lower[i - 1] # NULL
          /\ SLess(SFix(closes[i]), lower[i - 1])
     THEN 1 ELSE 0]

\* a signal on every bar whose flag is set, not only where it rises
RawSignalsLevel(up, dn) ==
  [i \in DOMAIN up |->
     IF i = 0 THEN "Hold"
     ELSE IF up[i] > up[i - 1] THEN "Buy"
     ELSE IF dn[i] > 0 THEN "Sell"
     ELSE "Hold"]

\* the two tests in the other order
RawSignalsSellFirst(up, dn) ==
  [i \in DOMAIN up |->
     IF i = 0 THEN "Hold"
     ELSE IF dn[i] > dn[i - 1] THEN "Sell"
     ELSE IF up[i] > up[i - 1] THEN "Buy"
     ELSE "Hold"]

\* The signals before the RSI filter
RawSignals(up, dn) ==
  [i \in DOMAIN up |->
     IF i = 0 THEN "Hold"
     ELSE IF up[i] > up[i - 1] THEN "Buy"
     ELSE IF dn[i] > dn[i - 1] THEN "Sell"
     ELSE "Hold"]

\* the two thresholds exchanged
RsiFilterSwapped(sig, r) ==
  [i \in DOMAIN sig |->
     IF i = 0 THEN sig[i]
     ELSE IF sig[i] = "Buy" /\ r[i] # NULL /\ RsiLT(r[i], RSI_OVERSOLD) THEN "Hold"
     ELSE IF sig[i] = "Sell" /\ r[i] # NULL /\ RsiGT(r[i], RSI_OVERBOUGHT) THEN "Hold"
     ELSE sig[i]]

\* the thresholds themselves vetoed
RsiFilterInclusive(sig, r) ==
  [i \in DOMAIN sig |->
     IF i = 0 THEN sig[i]
     ELSE IF sig[i] = "Buy" /\ r[i] # NULL /\ ~RsiLT(r[i], RSI_OVERBOUGHT) THEN "Hold"
     ELSE IF sig[i] = "Sell" /\ r[i] # NULL /\ ~RsiGT(r[i], RSI_OVERSOLD) THEN "Hold"
     ELSE sig[i]]

RsiFilter(sig, r) ==
  [i \in DOMAIN sig |->
     IF i = 0 THEN sig[i]
     ELSE IF sig[i] = "Buy" /\ r[i] # NULL /\ RsiGT(r[i], RSI_OVERBOUGHT) THEN "Hold"
     ELSE IF sig[i] = "Sell" /\ r[i] # NULL /\ RsiLT(r[i], RSI_OVERSOLD) THEN "Hold"
     ELSE sig[i]]

Enriched(d, r, a, m, u, l, ph, pl, s, up, dn) ==
  [datetime |-> d.datetime, open |-> d.open, high |-> d.high, low |-> d.low,
   close |-> d.close, volume |-> d.volume,
   rsi |-> r, atr |-> a, ama |-> m, upper |-> u, lower |-> l,
   pivotHigh |-> ph, pivotLow |-> pl, signal |-> s, upos |-> up, dnos |-> dn]

\* no bars returned while there are too few of them
WarmUpEmpty(data) == <<>>

\* The result for fewer than MIN_BARS bars
WarmUp(data) ==
  [i \in DOMAIN data |->
     Enriched(data[i], NULL, NULL, NULL, NULL, NULL, FALSE, FALSE, "Hold", 0, 0)]

----------------------------------------------------------------------------
(* The copy of the pipeline in api/trpc/[trpc].ts *)

\* The first averages are summed in place: a positive change is added to
\* avgGain, every other change to avgLoss as its absolute value.
CalculateRSIApi(closes, period) ==
  LET n == Len0(closes)
      change == [i \in 1..(n - 1) |-> closes[i] - closes[i - 1]]
      RECURSIVE First(_, _, _)
      First(i, avgGain, avgLoss) ==
        IF i > period THEN <<BigDiv(Fix(avgGain), period), BigDiv(Fix(avgLoss), period)>>
        ELSE IF change[i] > 0 THEN First(i + 1, avgGain + change[i], avgLoss)
        ELSE First(i + 1, avgGain, avgLoss + Abs(change[i]))
      RECURSIVE Smooth(_, _)
      Smooth(i, acc) ==
        IF i >= n THEN acc
        ELSE LET prev == acc[Len(acc)]
                 gain == IF change[i] > 0 THEN change[i] ELSE 0
                 loss == IF change[i] < 0 THEN Abs(change[i]) ELSE 0
             IN Smooth(i + 1, Append(acc,
                  <<BigDiv(BigAdd(BigMul(prev[1], period - 1), Fix(gain)), period),
                    BigDiv(BigAdd(BigMul(prev[2], period - 1), Fix(loss)), period)>>))
      avg == Smooth(period + 1, <<First(1, 0, 0)>>)
  IN IF n < period + 1
     THEN Fill(n, NULL)
     ELSE [i \in 0..(n - 1) |->
             IF i < period THEN NULL
             ELSE RsiValue(avg[i - period + 1][1], avg[i - period + 1][2])]

\* One outer loop for both flags; both inner loops run to their end.
CalculatePivotPointsApi(data, length) ==
  LET n == Len0(data)
      around(i) == ((i - length)..(i - 1)) \cup ((i + 1)..(i + length))
      isHigh(i) == \A j \in around(i) : ~(data[j].high >= data[i].high)
      isLow(i) == \A j \in around(i) : ~(data[j].low <= data[i].low)
      scanned(i) == i >= length /\ i < n - length
  IN [pivotHigh |-> [i \in 0..(n - 1) |-> IF scanned(i) THEN isHigh(i) ELSE FALSE],
      pivotLow  |-> [i \in 0..(n - 1) |-> IF scanned(i) THEN isLow(i) ELSE FALSE]]

\* The signal of bar i >= 1: the raw signal, then the two vetoes one after the
\* other.
SignalApi(upos, dnos, rsi, i) ==
  LET raw == IF upos[i] > upos[i - 1] THEN "Buy"
             ELSE IF dnos[i] > dnos[i - 1] THEN "Sell" ELSE "Hold"
      afterBuyVeto == IF raw = "Buy" /\ rsi[i] # NULL /\ RsiGT(rsi[i], 70)
                      THEN "Hold" ELSE raw
  IN IF afterBuyVeto = "Sell" /\ rsi[i] # NULL /\ RsiLT(rsi[i], 30)
     THEN "Hold" ELSE afterBuyVeto

\* calculateATR and calculateAMA of this file are those of the server, statement
\* for statement.  The arrays are built by push in one loop; as sequences here,
\* element k + 1 belonging to index k.
CalculatePivotDataApi(ohlc) ==
  IF Len0(ohlc) < 30
  THEN [i \in DOMAIN ohlc |->
          Enriched(ohlc[i], NULL, NULL, NULL, NULL, NULL, FALSE, FALSE, "Hold", 0, 0)]
  ELSE
    LET n == Len0(ohlc)
        closes == Closes(ohlc)
        highs == Highs(ohlc)
        lows == Lows(ohlc)
        rsiA == CalculateRSIApi(closes, 14)
        atrA == CalculateATR(highs, lows, closes, 14)
        amaA == CalculateAMA(closes, 14)
        piv == CalculatePivotPointsApi(ohlc, 14)
        slope == [i \in 0..(n - 1) |-> BigDiv(IF atrA[i] # NULL THEN atrA[i] ELSE <<>>, 14)]
        \* s holds the arrays after bar i - 1, each of length i (the test of
        \* the length has s evaluated at every step, not all at the end)
        RECURSIVE Loop(_, _)
        Loop(i, s) ==
          IF i >= n \/ Len(s.dnos) # i THEN s
          ELSE
            LET sph == IF piv.pivotHigh[i] THEN slope[i] ELSE s.slopePh[i]
                spl == IF piv.pivotLow[i] THEN slope[i] ELSE s.slopePl[i]
                up == IF piv.pivotHigh[i] THEN SFix(highs[i])
                      ELSE SSub(OrElse(s.upper[i], SFix(highs[i])), sph)
                lo == IF piv.pivotLow[i] THEN SFix(lows[i])
                      ELSE SAdd(OrElse(s.lower[i], SFix(lows[i])), spl)
                uo == IF ~piv.pivotHigh[i] /\ s.upper[i] # NULL
                           /\ SLess(s.upper[i], SFix(closes[i]))
                      THEN 1 ELSE 0
                dn == IF ~piv.pivotLow[i] /\ s.lower[i] # NULL
                           /\ SLess(SFix(closes[i]), s.lower[i])
                      THEN 1 ELSE 0
            IN Loop(i + 1,
                    [slopePh |-> Append(s.slopePh, sph), slopePl |-> Append(s.slopePl, spl),
                     upper |-> Append(s.upper, up), lower |-> Append(s.lower, lo),
                     upos |-> Append(s.upos, uo), dnos |-> Append(s.dnos, dn)])
        done == Loop(1, [slopePh |-> <<slope[0]>>, slopePl |-> <<slope[0]>>,
                         upper |-> <<SFix(highs[0])>>, lower |-> <<SFix(lows[0])>>,
                         upos |-> <<0>>, dnos |-> <<0>>])
        uposA == Arr(done.upos)
        dnosA == Arr(done.dnos)
        signalsA == [i \in 0..(n - 1) |->
                       IF i = 0 THEN "Hold" ELSE SignalApi(uposA, dnosA, rsiA, i)]
    IN [i \in DOMAIN ohlc |->
          Enriched(ohlc[i], rsiA[i], atrA[i], amaA[i], done.upper[i + 1], done.lower[i + 1],
                   piv.pivotHigh[i], piv.pivotLow[i], signalsA[i], uposA[i], dnosA[i])]

----------------------------------------------------------------------------
(* The copy of the pipeline in the bundled handler, unnamed/part_003 *)

\* One outer loop for both flags; the scan of the bars after i stops as soon as
\* neither flag is left standing.
CalculatePivotPointsBundled(data, length) ==
  LET n == Len0(data)
      RECURSIVE Before(_, _, _, _)
      Before(i, j, isHigh, isLow) ==
        IF ~(j < i) THEN <<isHigh, isLow>>
        ELSE Before(i, j + 1,
                    IF data[j].high >= data[i].high THEN FALSE ELSE isHigh,
                    IF data[j].low <= data[i].low THEN FALSE ELSE isLow)
      RECURSIVE After(_, _, _, _)
      After(i, j, isHigh, isLow) ==
        IF ~(j <= i + length /\ (isHigh \/ isLow)) THEN <<isHigh, isLow>>
        ELSE After(i, j + 1,
                   IF data[j].high >= data[i].high THEN FALSE ELSE isHigh,
                   IF data[j].low <= data[i].low THEN FALSE ELSE isLow)
      flags(i) == LET left == Before(i, i - length, TRUE, TRUE)
                  IN After(i, i + 1, left[1], left[2])
      scanned(i) == i >= length /\ i < n - length
  IN [pivotHigh |-> [i \in 0..(n - 1) |-> IF scanned(i) THEN flags(i)[1] ELSE FALSE],
      pivotLow  |-> [i \in 0..(n - 1) |-> IF scanned(i) THEN flags(i)[2] ELSE FALSE]]

----------------------------------------------------------------------------
(* The in-memory stores of the routers: searchHistoryStore *)

\* A string is a sequence of characters, a character a letter in lower or upper
\* case.  The tickers here are one character long.
Ticker(k, lowerCase) == << [letter |-> k, lower |-> lowerCase] >>

\* toUpperCase left out
KeepCase(ticker) == ticker

ToUpperCase(ticker) == [i \in DOMAIN ticker |-> [ticker[i] EXCEPT !.lower = FALSE]]

\* A Map from userId to an array: a user without an entry has has = FALSE.
NoEntry == [has |-> FALSE, array |-> <<>>]
EmptyMap == [u \in UserIds |-> NoEntry]
WithEntry(map, userId) ==
  IF map[userId].has THEN map ELSE [map EXCEPT ![userId] = [has |-> TRUE, array |-> <<>>]]

\* array.findIndex(h => h.ticker === ticker), an index from 0, or -1
FindTickerIndex(array, ticker) ==
  LET found == {i \in 1..Len(array) : array[i].ticker = ticker}
  IN IF found = {} THEN -1 ELSE (CHOOSE i \in found : \A j \in found : i <= j) - 1

\* array.splice(index, 1)
Splice(array, index) ==
  [i \in 1..(Len(array) - 1) |-> IF i <= index THEN array[i] ELSE array[i + 1]]

\* the history never shortened
KeepAll(history) == history

\* if (history.length > 10) history.pop()
KeepLast10(history) ==
  IF Len(history) > HISTORY_LIMIT THEN SubSeq(history, 1, Len(history) - 1) ELSE history

\* The array of searchHistory.add after the call.  searchedAt, the time of the
\* call, is read by no procedure and is left out of the entries.
HistoryAfterAdd(history, ticker) ==
  LET existingIndex == FindTickerIndex(history, ToUpperCase(ticker))
      removed == IF existingIndex # -1 THEN Splice(history, existingIndex) ELSE history
  IN KeepLast10(<<[ticker |-> ToUpperCase(ticker)]>> \o removed)

\* searchHistory.getRecent
GetRecent(store, userId) == IF store[userId].has THEN store[userId].array ELSE <<>>

----------------------------------------------------------------------------
(* The in-memory stores of the routers: alertStore and alertIdCounter *)

\* array.findIndex(a => a.id === alertId), an index from 0, or -1
FindAlertIndex(array, alertId) ==
  LET found == {i \in 1..Len(array) : array[i].id = alertId}
  IN IF found = {} THEN -1 ELSE (CHOOSE i \in found : \A j \in found : i <= j) - 1

\* The store after alerts.create.  createdAt, the time of the call, is read by
\* no procedure and is left out of the alert.
AfterCreate(store, counter, userId, input) ==
  LET alert == [id |-> counter, ticker |-> ToUpperCase(input.ticker),
                priceLevel |-> input.priceLevel, direction |-> input.direction,
                triggered |-> FALSE]
  IN [WithEntry(store, userId) EXCEPT
        ![userId].array = Append(WithEntry(store, userId)[userId].array, alert)]

\* alerts.getActive
GetActive(store, userId) ==
  IF store[userId].has THEN SelectSeq(store[userId].array, LAMBDA a : ~a.triggered)
  ELSE <<>>

\* the alert looked up in the arrays of all users
AfterDismissOfAnyone(store, userId, alertId) ==
  [u \in UserIds |->
     [store[u] EXCEPT !.array =
        [i \in 1..Len(store[u].array) |->
           IF store[u].array[i].id = alertId
           THEN [store[u].array[i] EXCEPT !.triggered = TRUE]
           ELSE store[u].array[i]]]]

\* The store after alerts.dismiss
AfterDismiss(store, userId, alertId) ==
  IF ~store[userId].has THEN store
  ELSE LET index == FindAlertIndex(store[userId].array, alertId)
       IN IF index = -1 THEN store
          ELSE [store EXCEPT ![userId].array[index + 1].triggered = TRUE]

\* The store after alerts.delete
AfterDelete(store, userId, alertId) ==
  IF ~store[userId].has THEN store
  ELSE LET index == FindAlertIndex(store[userId].array, alertId)
       IN IF index = -1 THEN store
          ELSE [store EXCEPT ![userId].array = Splice(store[userId].array, index)]

----------------------------------------------------------------------------
(* getLatestSignal *)

\* A value that is present, where the source has `T | null`
Some(v) == <<"some", v>>

\* A Date is modelled by its time value; the invalid Date, whose time value is
\* NaN, by InvalidDate.
InvalidDate == 0 - 1
IsNaN(d) == d = InvalidDate

\* the comparator taken in ascending order
CompareAscending(a, b) ==
  IF IsNaN(a.datetime) \/ IsNaN(b.datetime) THEN 0
  ELSE a.datetime - b.datetime

\* The comparator given to sort: new Date(b.datetime).getTime() -
\* new Date(a.datetime).getTime(); a NaN result counts as +0.
Compare(a, b) ==
  IF IsNaN(a.datetime) \/ IsNaN(b.datetime) THEN 0
  ELSE b.datetime - a.datetime

\* The indices of the first n elements of a in the order sort leaves them in:
\* sort is stable, an element stays behind the earlier ones it compares equal to.
RECURSIVE SortedIndices(_, _)
SortedIndices(a, n) ==
  IF n = 0 THEN <<>>
  ELSE LET prev == SortedIndices(a, n - 1)
           pos == Cardinality({k \in 1..Len(prev) : Compare(a[prev[k]], a[n - 1]) <= 0})
       IN  SubSeq(prev, 1, pos) \o <<n - 1>> \o SubSeq(prev, pos + 1, Len(prev))

SortDesc(a) ==
  LET at == SortedIndices(a, Len0(a))
  IN  [k \in DOMAIN a |-> a[at[k + 1]]]

\* The comparator is consistent when no datetime is invalid, or when all
\* elements compare equal.
Consistent(a) ==
  \/ \A i \in DOMAIN a : ~IsNaN(a[i].datetime)
  \/ \A i, j \in DOMAIN a : Compare(a[i], a[j]) = 0

Permutations0(S) == {p \in [S -> S] : \A i, j \in S : p[i] = p[j] => i = j}

\* The arrays [...pivotData].sort(comparator) can be: with an inconsistent
\* comparator the order is implementation-defined.
Sorted(a) ==
  IF Consistent(a) THEN {SortDesc(a)}
  ELSE {[k \in DOMAIN a |-> a[p[k]]] : p \in Permutations0(DOMAIN a)}

\* sortedData.find(d => d.signal !== 'Hold'), as an index of sortedData
NonHold(sortedData) == {k \in DOMAIN sortedData : sortedData[k].signal # "Hold"}
FindNonHold(sortedData) ==
  CHOOSE k \in NonHold(sortedData) : \A m \in NonHold(sortedData) : k <= m

\* The result of getLatestSignal, sortedData being the sorted copy
GetLatestSignal(data, sortedData) ==
  IF Len0(data) = 0
  THEN [signal |-> "Hold", lastSignal |-> "Hold",
        lastSignalTime |-> NULL, lastSignalPrice |-> NULL]
  ELSE IF NonHold(sortedData) = {}
  THEN [signal |-> sortedData[0].signal, lastSignal |-> "Hold",
        lastSignalTime |-> NULL, lastSignalPrice |-> NULL]
  ELSE LET lastNonHold == sortedData[FindNonHold(sortedData)]
       IN  [signal |-> sortedData[0].signal, lastSignal |-> lastNonHold.signal,
            lastSignalTime |-> Some(lastNonHold.datetime),
            lastSignalPrice |-> Some(lastNonHold.close)]

\* the argument array sorted in place
SortedInPlace(data) == SortDesc(data)

\* The argument array after getLatestSignal: sort is applied to a copy
\* ([...pivotData]), the argument keeps its order and elements.
ArgumentAfterSort(data) == data

----------------------------------------------------------------------------
(* State *)

VARIABLES
  pc,          \* "call" before the function under study has run, "return" (of
               \* an indicator alone: "returnRSI", "returnATR", "returnAMA") after
  ohlcData,    \* the bars given to calculatePivotData or calculatePivotPoints
  length,      \* the window given to calculatePivotPoints, the period given to
               \* calculateRSI, calculateATR or calculateAMA applied alone
  pivots,      \* the result of calculatePivotPoints
  rsi, atr, ama, slopePh, slopePl, upper, lower, upos, dnos,
               \* the arrays of calculatePivotData, of the copy that ran last
  rawSignals,  \* its array signals before the RSI filter
  signals,     \* its array signals after the RSI filter
  pivotData,   \* the result of calculatePivotData, the argument of getLatestSignal
  summary,     \* the result of getLatestSignal
  pivotDataApi,       \* the result of calculatePivotData of api/trpc/[trpc].ts
  pivotDataBundled,   \* the result of calculatePivotData of the bundled handler
  searchHistoryStore, \* userId -> the user's history, most recent first; a user
                      \* without an entry in the Map is outside the domain
  alertStore,         \* userId -> the user's alerts, in the order of the array
  alertIdCounter,     \* the id the next alert gets
  request             \* the call handled last: procedure, ctx.userId, input

locals == <<pivots, rsi, atr, ama, slopePh, slopePl, upper, lower, upos, dnos,
            rawSignals, signals>>
copies == <<pivotDataApi, pivotDataBundled>>
stores == <<searchHistoryStore, alertStore, alertIdCounter, request>>
vars == <<pc, ohlcData, length, locals, pivotData, summary, copies, stores>>

\* the module state of the routers before any call
NoStores ==
  /\ searchHistoryStore = EmptyMap
  /\ alertStore = EmptyMap
  /\ alertIdCounter = 1
  /\ request = [procedure |-> "none", userId |-> 0, input |-> NULL]

----------------------------------------------------------------------------
(* Inputs *)

\* The pipeline is given bar sequences of these shapes.  Closes start at 100 and
\* move by `drift` a bar, with `zig` added on odd bars; highs and lows are
\* 100 + range and 100 - range, with one higher high at `peak` and one lower
\* low at `trough` (none when negative); the bar at `at` (none when negative) is
\* replaced by a bar of the given kind.
BarCounts == {0, 1, MinBarsForPivot} \cup MIN_BARS..MaxBars
Drifts == {-1, 0, 1}
Zigs == {0, 10}
Ranges == {10, 40}
Extrema == {-1, 14, 15}
Kinds == {"spikeUp", "spikeDown", "closeAbove", "closeBelow"}
Places(n) == {-1} \cup {i \in 0..(n - 1) : i \in {0, 1, 2, 13, 14, 16, 17, 20, n - 1}}

ShapedBar(i, drift, zig, range, peak, trough, at, kind) ==
  LET c == 100 + drift * i + (IF i % 2 = 1 THEN zig ELSE 0)
      h == 100 + range + (IF i = peak THEN 1 ELSE 0)
      l == 100 - range - (IF i = trough THEN 1 ELSE 0)
  IN IF i # at THEN Bar(i, 100, h, l, c, 1000)
     ELSE CASE kind = "spikeUp"    -> Bar(i, 100, h + 10, l, h + 10, 1000)
            [] kind = "spikeDown"  -> Bar(i, 100, h, l - 10, l - 10, 1000)
            [] kind = "closeAbove" -> Bar(i, 100, h, l, h + 10, 1000)
            [] kind = "closeBelow" -> Bar(i, 100, h, l, l - 10, 1000)

ShapedBars(n, drift, zig, range, peak, trough, at, kind) ==
  [i \in 0..(n - 1) |-> ShapedBar(i, drift, zig, range, peak, trough, at, kind)]

\* Two sequences whose RSI at bar 14 is exactly 70 (30) as bar 14 closes above
\* the upper (below the lower) bound: the first 14 changes hold gains of 70 and
\* losses of 30 (gains of 30 and losses of 70).
BoundaryBar(i, up) ==
  LET d == IF i = 0 THEN 0 ELSE IF i = 1 THEN -30 ELSE IF i < 14 THEN 0 ELSE 40
  IN IF up
     THEN Bar(i, 100, IF i >= 14 THEN 140 ELSE 110, 60, 100 + d, 1000)
     ELSE Bar(i, 100, 140, IF i >= 14 THEN 60 ELSE 90, 100 - d, 1000)

BoundaryInputs ==
  { [i \in 0..(n - 1) |-> BoundaryBar(i, up)] : n \in MIN_BARS..MaxBars, up \in BOOLEAN }

ShapedInputs ==
  { ShapedBars(n, sh[1], sh[2], sh[3], sh[4], sh[5], pk[1], pk[2]) :
      sh \in Drifts \X Zigs \X Ranges \X Extrema \X Extrema,
      pk \in UNION { {<<at, k>> : k \in (IF at < 0 THEN {"spikeUp"} ELSE Kinds)} :
                     at \in Places(MaxBars) },
      n \in BarCounts }

PipelineInputs == ShapedInputs \cup BoundaryInputs

\* The three copies are compared on the shapes of range 10 with the odd bar
\* after both extrema, and on the boundary sequences.
CopyPlaces == {<<-1, "spikeUp">>} \cup ({16, 20} \X Kinds)

CopyInputs(n) ==
  { ShapedBars(n, sh[1], sh[2], 10, sh[3], sh[4], pk[1], pk[2]) :
      sh \in Drifts \X Zigs \X Extrema \X Extrema, pk \in CopyPlaces }
  \cup { b \in BoundaryInputs : Len0(b) = n }

\* calculatePivotPoints alone is given every short sequence over ScanPrices
ScanBar(i, h, l) == Bar(i, h, h, l, l, 1000)

ScanInputs ==
  UNION { { [i \in 0..(n - 1) |-> ScanBar(i, hs[i], ls[i])] :
              hs \in [0..(n - 1) -> ScanPrices], ls \in [0..(n - 1) -> ScanPrices] } :
          n \in 0..MaxScanBars }

\* and, with the pipeline's window, sequences of about 2 * PIVOT_LENGTH + 1 bars
LongScanInputs ==
  { ShapedBars(n, 0, 0, 10, peak, trough, at, kind) :
      n \in (MinBarsForPivot - 1)..(MinBarsForPivot + 1),
      peak \in Extrema, trough \in Extrema,
      at \in {-1, 13, 14, 16}, kind \in {"spikeUp", "spikeDown"} }

\* getLatestSignal is given every sequence of at most MaxSummaryBars enriched
\* bars whose datetimes are among 1..MaxSummaryBars and the invalid Date, in
\* any order and with repetitions, with any signals; bar i closes at 10 * (i + 1).
SummaryBar(i, t, sig) ==
  Enriched(Bar(t, 10 * (i + 1), 10 * (i + 1), 10 * (i + 1), 10 * (i + 1), 1000),
           NULL, NULL, NULL, NULL, NULL, FALSE, FALSE, sig, 0, 0)
SummaryInputs(n) ==
  {[i \in 0..(n - 1) |-> SummaryBar(i, t[i], sig[i])] :
     t \in [0..(n - 1) -> 1..MaxSummaryBars \cup {InvalidDate}],
     sig \in [0..(n - 1) -> {"Buy", "Sell", "Hold"}]}

\* The indicators are given bars <<low, high, close>> of these kinds: every
\* combination with low in 1..2, high in 2..3 and close in 1..3 for at most 3
\* bars, and three kinds (closes 1, 3 and 2) for longer sequences.
ShortKinds == (1..2) \X (2..3) \X (1..3)
LongKinds == {<<1, 2, 1>>, <<1, 3, 3>>, <<2, 2, 2>>}
IndicatorBar(i, k) == Bar(i, k[1], k[2], k[1], k[3], 1000)
IndicatorInputs(n) ==
  {[i \in 0..(n - 1) |-> IndicatorBar(i, k[i])] :
     k \in [0..(n - 1) -> IF n <= 3 THEN ShortKinds ELSE LongKinds]}

----------------------------------------------------------------------------
(* Operations *)

NoLocals ==
  /\ pivots = <<>> /\ rsi = <<>> /\ atr = <<>> /\ ama = <<>>
  /\ slopePh = <<>> /\ slopePl = <<>> /\ upper = <<>> /\ lower = <<>>
  /\ upos = <<>> /\ dnos = <<>> /\ rawSignals = <<>> /\ signals = <<>>

Init ==
  /\ pc = "call"
  /\ ohlcData \in PipelineInputs
  /\ length = PIVOT_LENGTH
  /\ NoLocals
  /\ pivotData = <<>>
  /\ summary = NULL
  /\ pivotDataApi = NULL
  /\ pivotDataBundled = NULL
  /\ NoStores

CalculatePivotData ==
  /\ pc = "call"
  /\ pc' = "return"
  /\ UNCHANGED <<copies, stores>>
  /\ UNCHANGED <<ohlcData, length, summary>>
  /\ IF Len0(ohlcData) < MIN_BARS
     THEN /\ pivotData' = WarmUp(ohlcData)
          /\ UNCHANGED locals
     ELSE /\ rsi' = CalculateRSI(Closes(ohlcData), RSI_PERIOD)
          /\ atr' = CalculateATR(Highs(ohlcData), Lows(ohlcData), Closes(ohlcData),
                                 ATR_PERIOD)
          /\ ama' = CalculateAMA(Closes(ohlcData), 14)
          /\ pivots' = CalculatePivotPoints(ohlcData, PIVOT_LENGTH)
          /\ slopePh' = SlopeAtPivot(pivots'.pivotHigh, Slope(atr'))
          /\ slopePl' = SlopeAtPivot(pivots'.pivotLow, Slope(atr'))
          /\ upper' = UpperLine(pivots'.pivotHigh, Highs(ohlcData), slopePh')
          /\ lower' = LowerLine(pivots'.pivotLow, Lows(ohlcData), slopePl')
          /\ upos' = Upos(pivots'.pivotHigh, upper', Closes(ohlcData))
          /\ dnos' = Dnos(pivots'.pivotLow, lower', Closes(ohlcData))
          /\ rawSignals' = RawSignals(upos', dnos')
          /\ signals' = RsiFilter(rawSignals', rsi')
          /\ pivotData' =
               [i \in DOMAIN ohlcData |->
                  Enriched(ohlcData[i], rsi'[i], atr'[i], ama'[i], upper'[i], lower'[i],
                           pivots'.pivotHigh[i], pivots'.pivotLow[i], signals'[i],
                           upos'[i], dnos'[i])]

GetLatestSignalCall ==
  /\ pc = "return"
  /\ pc' = "summarised"
  /\ UNCHANGED <<copies, stores>>
  /\ \E sortedData \in Sorted(pivotData) :
       summary' = GetLatestSignal(pivotData, sortedData)
  /\ pivotData' = ArgumentAfterSort(pivotData)
  /\ UNCHANGED <<ohlcData, length, locals>>

Next == CalculatePivotData \/ GetLatestSignalCall

Spec == Init /\ [][Next]_vars

InitScan ==
  /\ pc = "call"
  /\ \/ ohlcData \in ScanInputs /\ length \in 1..MaxScanLength
     \/ ohlcData \in LongScanInputs /\ length = PIVOT_LENGTH
  /\ NoLocals
  /\ pivotData = <<>>
  /\ summary = NULL
  /\ pivotDataApi = NULL
  /\ pivotDataBundled = NULL
  /\ NoStores

CalculatePivotPointsCall ==
  /\ pc = "call"
  /\ pc' = "return"
  /\ UNCHANGED <<copies, stores>>
  /\ pivots' = CalculatePivotPoints(ohlcData, length)
  /\ UNCHANGED <<ohlcData, length, rsi, atr, ama, slopePh, slopePl, upper, lower,
                 upos, dnos, rawSignals, signals, pivotData, summary>>

NextScan == CalculatePivotPointsCall

SpecScan == InitScan /\ [][NextScan]_vars

InitLatest ==
  /\ pc = "return"
  /\ ohlcData = <<>>
  /\ length = PIVOT_LENGTH
  /\ NoLocals
  /\ \E n \in 0..MaxSummaryBars : pivotData \in SummaryInputs(n)
  /\ summary = NULL
  /\ pivotDataApi = NULL
  /\ pivotDataBundled = NULL
  /\ NoStores

NextLatest == GetLatestSignalCall

SpecLatest == InitLatest /\ [][NextLatest]_vars

InitIndicators ==
  /\ pc = "call"
  /\ \/ /\ \E n \in 0..MaxIndicatorBars : ohlcData \in IndicatorInputs(n)
        /\ length \in IndicatorPeriods
     \/ /\ ohlcData \in BoundaryInputs
        /\ length = 14
  /\ NoLocals
  /\ pivotData = <<>>
  /\ summary = NULL
  /\ pivotDataApi = NULL
  /\ pivotDataBundled = NULL
  /\ NoStores

CalculateRSICall ==
  /\ pc = "call"
  /\ pc' = "returnRSI"
  /\ UNCHANGED <<copies, stores>>
  /\ rsi' = CalculateRSI(Closes(ohlcData), length)
  /\ UNCHANGED <<ohlcData, length, pivots, atr, ama, slopePh, slopePl, upper, lower,
                 upos, dnos, rawSignals, signals, pivotData, summary>>

CalculateATRCall ==
  /\ pc = "call"
  /\ pc' = "returnATR"
  /\ UNCHANGED <<copies, stores>>
  /\ atr' = CalculateATR(Highs(ohlcData), Lows(ohlcData), Closes(ohlcData), length)
  /\ UNCHANGED <<ohlcData, length, pivots, rsi, ama, slopePh, slopePl, upper, lower,
                 upos, dnos, rawSignals, signals, pivotData, summary>>

CalculateAMACall ==
  /\ pc = "call"
  /\ pc' = "returnAMA"
  /\ UNCHANGED <<copies, stores>>
  /\ ama' = CalculateAMA(Closes(ohlcData), length)
  /\ UNCHANGED <<ohlcData, length, pivots, rsi, atr, slopePh, slopePl, upper, lower,
                 upos, dnos, rawSignals, signals, pivotData, summary>>

NextIndicators ==
  CalculateRSICall \/ CalculateATRCall \/ CalculateAMACall \/ CalculatePivotData

SpecIndicators == InitIndicators /\ [][NextIndicators]_vars

\* The three copies of calculatePivotData applied to the same bars, one after
\* the other.
CalculatePivotDataApiCall ==
  /\ pc = "return"
  /\ pc' = "returnApi"
  /\ pivotDataApi' = CalculatePivotDataApi(ohlcData)
  /\ UNCHANGED <<ohlcData, length, locals, pivotData, summary, pivotDataBundled, stores>>

\* Apart from the pivot scan, the statements of the bundled copy are those of
\* the server: the same passes in the same order over arrays of the same names,
\* the veto as if / else if.  phVal and plVal are written but never read.
CalculatePivotDataBundledCall ==
  /\ pc = "returnApi"
  /\ pc' = "returnBundled"
  /\ UNCHANGED <<ohlcData, length, pivotData, summary, pivotDataApi, stores>>
  /\ IF Len0(ohlcData) < 30
     THEN /\ pivotDataBundled' =
               [i \in DOMAIN ohlcData |->
                  Enriched(ohlcData[i], NULL, NULL, NULL, NULL, NULL, FALSE, FALSE,
                           "Hold", 0, 0)]
          /\ UNCHANGED locals
     ELSE /\ rsi' = CalculateRSI(Closes(ohlcData), 14)
          /\ atr' = CalculateATR(Highs(ohlcData), Lows(ohlcData), Closes(ohlcData), 14)
          /\ ama' = CalculateAMA(Closes(ohlcData), 14)
          /\ pivots' = CalculatePivotPointsBundled(ohlcData, 14)
          /\ LET slope == [i \in DOMAIN ohlcData |->
                             IF atr'[i] # NULL THEN BigDiv(atr'[i], 14) ELSE <<>>]
             IN /\ slopePh' = SlopeAtPivot(pivots'.pivotHigh, slope)
                /\ slopePl' = SlopeAtPivot(pivots'.pivotLow, slope)
          /\ upper' = UpperLine(pivots'.pivotHigh, Highs(ohlcData), slopePh')
          /\ lower' = LowerLine(pivots'.pivotLow, Lows(ohlcData), slopePl')
          /\ upos' = Upos(pivots'.pivotHigh, upper', Closes(ohlcData))
          /\ dnos' = Dnos(pivots'.pivotLow, lower', Closes(ohlcData))
          /\ rawSignals' = RawSignals(upos', dnos')
          /\ signals' = RsiFilter(rawSignals', rsi')
          /\ pivotDataBundled' =
               [i \in DOMAIN ohlcData |->
                  Enriched(ohlcData[i], rsi'[i], atr'[i], ama'[i], upper'[i], lower'[i],
                           pivots'.pivotHigh[i], pivots'.pivotLow[i], signals'[i],
                           upos'[i], dnos'[i])]

NextCopies ==
  CalculatePivotData \/ CalculatePivotDataApiCall \/ CalculatePivotDataBundledCall

InitCopies ==
  /\ pc = "call"
  /\ \E n \in {1} \cup MIN_BARS..MaxBars : ohlcData \in CopyInputs(n)
  /\ length = PIVOT_LENGTH
  /\ NoLocals
  /\ pivotData = <<>>
  /\ summary = NULL
  /\ pivotDataApi = NULL
  /\ pivotDataBundled = NULL
  /\ NoStores

SpecCopies == InitCopies /\ [][NextCopies]_vars

\* The routers are called by the users in any order.  The pipeline is not part
\* of these runs.
Serving ==
  /\ pc = "serving"
  /\ ohlcData = <<>>
  /\ length = 0
  /\ NoLocals
  /\ pivotData = <<>>
  /\ summary = NULL
  /\ pivotDataApi = NULL
  /\ pivotDataBundled = NULL

Request(procedure, userId, input) ==
  [procedure |-> procedure, userId |-> userId, input |-> input]

\* A user searches for the letter after the one searched last, in lower or
\* upper case, or, while the history is still in the order of the letters, for
\* any ticker of the history again.
TickerCount(userId) == IF userId = 1 THEN MaxTickers ELSE MaxOtherTickers

InOrder(history) ==
  \A i \in 1..(Len(history) - 1) : history[i].ticker[1].letter > history[i + 1].ticker[1].letter

SearchLetters(userId, history) ==
  LET next == IF history = <<>> THEN 1 ELSE history[1].ticker[1].letter + 1
  IN {k \in {next} : k <= TickerCount(userId)}
       \cup (IF InOrder(history) THEN {history[i].ticker[1].letter : i \in 1..Len(history)}
             ELSE {})

SearchHistoryAdd(userId, ticker) ==
  /\ searchHistoryStore' =
       [WithEntry(searchHistoryStore, userId) EXCEPT
          ![userId].array = HistoryAfterAdd(GetRecent(searchHistoryStore, userId), ticker)]
  /\ request' = Request("searchHistory.add", userId, ticker)
  /\ UNCHANGED <<pc, ohlcData, length, locals, pivotData, summary, copies,
                 alertStore, alertIdCounter>>

SearchHistoryAddCall ==
  \E userId \in UserIds :
    \E k \in SearchLetters(userId, GetRecent(searchHistoryStore, userId)),
       lowerCase \in BOOLEAN :
      SearchHistoryAdd(userId, Ticker(k, lowerCase))

SearchHistoryClearCall ==
  \E userId \in UserIds :
    /\ searchHistoryStore' = [searchHistoryStore EXCEPT ![userId] = NoEntry]
    /\ request' = Request("searchHistory.clear", userId, NULL)
    /\ UNCHANGED <<pc, ohlcData, length, locals, pivotData, summary, copies,
                   alertStore, alertIdCounter>>

InitHistory == Serving /\ NoStores

NextHistory == SearchHistoryAddCall \/ SearchHistoryClearCall

SpecHistory == InitHistory /\ [][NextHistory]_vars

\* The inputs of alerts.create: one ticker in lower or upper case with a level
\* and a direction.
AlertInputs ==
  { [ticker |-> Ticker(1, lowerCase), priceLevel |-> 100, direction |-> "above"] :
      lowerCase \in BOOLEAN }

\* the ids users ask to dismiss or delete: those given out, 0, and one beyond
AlertIds == 0..(MaxAlerts + 1)

AlertsCreateCall ==
  \E userId \in UserIds, input \in AlertInputs :
    /\ alertIdCounter <= MaxAlerts
    /\ alertStore' = AfterCreate(alertStore, alertIdCounter, userId, input)
    /\ alertIdCounter' = alertIdCounter + 1
    /\ request' = Request("alerts.create", userId, input)
    /\ UNCHANGED <<pc, ohlcData, length, locals, pivotData, summary, copies,
                   searchHistoryStore>>

AlertsDismissCall ==
  \E userId \in UserIds, alertId \in AlertIds :
    /\ alertStore' = AfterDismiss(alertStore, userId, alertId)
    /\ request' = Request("alerts.dismiss", userId, alertId)
    /\ UNCHANGED <<pc, ohlcData, length, locals, pivotData, summary, copies,
                   searchHistoryStore, alertIdCounter>>

AlertsDeleteCall ==
  \E userId \in UserIds, alertId \in AlertIds :
    /\ alertStore' = AfterDelete(alertStore, userId, alertId)
    /\ request' = Request("alerts.delete", userId, alertId)
    /\ UNCHANGED <<pc, ohlcData, length, locals, pivotData, summary, copies,
                   searchHistoryStore, alertIdCounter>>

InitAlerts == Serving /\ NoStores

NextAlerts == AlertsCreateCall \/ AlertsDismissCall \/ AlertsDeleteCall

SpecAlerts == InitAlerts /\ [][NextAlerts]_vars

----------------------------------------------------------------------------
(* Properties of calculatePivotData and calculatePivotPoints *)

Returned == pc = "return"
Bars == Len0(ohlcData)
Out(i) == pivotData[i]
Absent(v) == v = NULL
\* a defined rsi, numerator over denominator, equals the integer k
RsiIs(r, k) == r[2] # <<>> /\ r[1] = BigMul(r[2], k)
Ran == Returned /\ Bars >= 30

\* close[i] > upperBound[i-1] and close[i] < lowerBound[i-1], on the returned bars
ClosesAbove(i) == SLess(Out(i - 1).upper, SFix(Out(i).close))
ClosesBelow(i) == SLess(SFix(Out(i).close), Out(i - 1).lower)

\* C1: given fewer than 30 bars (none included), calculatePivotData returns one
\* bar per input bar, each with signal Hold, both pivot flags false, rsi, atr,
\* ama, upper and lower absent, and upos = dnos = 0.
C1_WarmUp ==
  (Returned /\ Bars < 30) =>
    /\ DOMAIN pivotData = DOMAIN ohlcData
    /\ \A i \in DOMAIN pivotData :
         /\ Out(i).signal = "Hold"
         /\ ~Out(i).pivotHigh /\ ~Out(i).pivotLow
         /\ Absent(Out(i).rsi) /\ Absent(Out(i).atr) /\ Absent(Out(i).ama)
         /\ Absent(Out(i).upper) /\ Absent(Out(i).lower)
         /\ Out(i).upos = 0 /\ Out(i).dnos = 0

C1_Witness == Returned /\ Bars = 29 /\ Len0(pivotData) = 29

\* C2: for length <= i < n - length, calculatePivotPoints flags i as a pivot high
\* exactly when high[i] is strictly greater than the high of each of the `length`
\* bars before it and each of the `length` bars after it, and as a pivot low
\* exactly when low[i] is strictly less than all those lows.
C2_PivotDefinition ==
  Returned =>
    \A i \in DOMAIN ohlcData :
      (length <= i /\ i < Bars - length) =>
        LET around == ((i - length)..(i - 1)) \cup ((i + 1)..(i + length))
        IN /\ pivots.pivotHigh[i] <=>
                \A j \in around : ohlcData[i].high > ohlcData[j].high
           /\ pivots.pivotLow[i] <=>
                \A j \in around : ohlcData[i].low < ohlcData[j].low

\* a pivot high is flagged, and another bar fails only by a tie on its left
C2_Witness ==
  /\ Returned
  /\ \E i \in DOMAIN ohlcData : pivots.pivotHigh[i]
  /\ \E i \in DOMAIN ohlcData :
       /\ length <= i /\ i < Bars - length
       /\ ~pivots.pivotHigh[i]
       /\ \A j \in (i + 1)..(i + length) : ohlcData[i].high > ohlcData[j].high
       /\ \A j \in (i - length)..(i - 1) : ohlcData[i].high >= ohlcData[j].high

\* C3: calculatePivotPoints flags no bar i < length and no bar i >= n - length;
\* so with n = 2 * length + 1 only bar `length` can be flagged, and with fewer
\* bars none is.
C3_EdgeExclusion ==
  Returned =>
    /\ \A i \in DOMAIN ohlcData :
         (i < length \/ i >= Bars - length) =>
           ~pivots.pivotHigh[i] /\ ~pivots.pivotLow[i]
    /\ Bars = 2 * length + 1 =>
         \A i \in DOMAIN ohlcData :
           (pivots.pivotHigh[i] \/ pivots.pivotLow[i]) => i = length
    /\ Bars < 2 * length + 1 =>
         \A i \in DOMAIN ohlcData : ~pivots.pivotHigh[i] /\ ~pivots.pivotLow[i]

\* 29 bars and the window 14: bar 14 is flagged
C3_Witness ==
  /\ Returned /\ length = 14 /\ Bars = 29
  /\ pivots.pivotHigh[14]

C6_BuyImplies ==
  Returned =>
    \A i \in DOMAIN pivotData :
      Out(i).signal = "Buy" =>
        /\ i > 0
        /\ Out(i).upos > Out(i - 1).upos
        /\ (Absent(Out(i).rsi) \/ ~RsiGT(Out(i).rsi, 70))

\* a Buy with a defined rsi, another with an absent one, and a raw Buy vetoed
C6_Witness ==
  /\ Ran
  /\ \E i \in DOMAIN pivotData : Out(i).signal = "Buy" /\ ~Absent(Out(i).rsi)
  /\ \E i \in DOMAIN pivotData : Out(i).signal = "Buy" /\ Absent(Out(i).rsi)
  /\ \E i \in DOMAIN pivotData : rawSignals[i] = "Buy" /\ Out(i).signal = "Hold"

\* C7: a bar with signal Sell is not bar 0, its dnos is greater than the previous
\* bar's, and its rsi is absent or at least 30.
C7_SellImplies ==
  Returned =>
    \A i \in DOMAIN pivotData :
      Out(i).signal = "Sell" =>
        /\ i > 0
        /\ Out(i).dnos > Out(i - 1).dnos
        /\ (Absent(Out(i).rsi) \/ ~RsiLT(Out(i).rsi, 30))

\* a Sell with a defined rsi, a raw Sell vetoed, and a bar after a Sell whose
\* dnos is still 1
C7_Witness ==
  /\ Ran
  /\ \E i \in DOMAIN pivotData : Out(i).signal = "Sell" /\ ~Absent(Out(i).rsi)
  /\ \E i \in DOMAIN pivotData : rawSignals[i] = "Sell" /\ Out(i).signal = "Hold"
  /\ \E i \in DOMAIN pivotData :
       i > 0 /\ Out(i).dnos = 1 /\ Out(i - 1).dnos = 1 /\ Out(i).signal = "Hold"

\* C8: the signal of bar 0 is Hold; before the RSI filter the signal of a bar
\* i > 0 is Buy if upos[i] > upos[i-1], else Sell if dnos[i] > dnos[i-1], else
\* Hold, so it is Buy when both rise on the same bar.
C8_RawSignal ==
  Returned =>
    /\ Bars > 0 => Out(0).signal = "Hold"
    /\ Bars >= 30 =>
         /\ DOMAIN rawSignals = DOMAIN pivotData
         /\ \A i \in DOMAIN pivotData :
              rawSignals[i] =
                IF i = 0 THEN "Hold"
                ELSE IF Out(i).upos > Out(i - 1).upos THEN "Buy"
                ELSE IF Out(i).dnos > Out(i - 1).dnos THEN "Sell"
                ELSE "Hold"

\* both flags rise on one bar, and a Sell arises on another
C8_Witness ==
  /\ Ran
  /\ \E i \in DOMAIN pivotData :
       /\ i > 0 /\ Out(i).upos > Out(i - 1).upos /\ Out(i).dnos > Out(i - 1).dnos
       /\ rawSignals[i] = "Buy"
  /\ \E i \in DOMAIN pivotData : rawSignals[i] = "Sell"

C10_ReadmeRsiFilter ==
  Returned =>
    \A i \in DOMAIN pivotData :
      (~Absent(Out(i).rsi) /\ (RsiGT(Out(i).rsi, 70) \/ RsiLT(Out(i).rsi, 30)))
        => Out(i).signal = "Hold"

\* Every bar has low <= open, close <= high and low <= high
ValidBars ==
  \A i \in DOMAIN ohlcData :
    /\ ohlcData[i].low <= ohlcData[i].high
    /\ ohlcData[i].low <= ohlcData[i].close /\ ohlcData[i].close <= ohlcData[i].high
    /\ ohlcData[i].low <= ohlcData[i].open /\ ohlcData[i].open <= ohlcData[i].high

\* C11 as stated: for valid bars and n >= 30, on no bar i > 0 do both breakout
\* conditions hold (no pivot high and close[i] > upper[i-1]; no pivot low and
\* close[i] < lower[i-1]).
C11_BreakoutsExclusive ==
  (Ran /\ ValidBars) =>
    \A i \in DOMAIN pivotData :
      i > 0 => ~ /\ ~Out(i).pivotHigh /\ ClosesAbove(i)
                 /\ ~Out(i).pivotLow /\ ClosesBelow(i)

\* C11, amended: for n >= 30, upos and dnos are both set on a bar i > 0 only
\* when the bounds have crossed, upper[i-1] < lower[i-1] (which happens with
\* valid bars, once the upper bound has decayed below the lower bound); while
\* upper[i-1] >= lower[i-1] at most one of them is set.
C11_BothOnlyWhenCrossed ==
  Ran =>
    \A i \in DOMAIN pivotData :
      (i > 0 /\ Out(i).upos = 1 /\ Out(i).dnos = 1) =>
        SLess(Out(i - 1).upper, Out(i - 1).lower)

\* valid bars on which both flags are set on one bar
C11_Witness ==
  /\ Ran /\ ValidBars
  /\ \E i \in DOMAIN pivotData : i > 0 /\ Out(i).upos = 1 /\ Out(i).dnos = 1

\* slope[k] = atr[k] / 14, or 0 where ATR is absent, on the returned bars
SlopeOf(k) == IF Absent(Out(k).atr) THEN <<>> ELSE BigDiv(Out(k).atr, 14)
\* The slope carried at bar i: that of the most recent pivot-high (pivot-low)
\* bar k <= i, and slope[0] when there is none.
PivotHighsTo(i) == {k \in 0..i : Out(k).pivotHigh}
PivotLowsTo(i) == {k \in 0..i : Out(k).pivotLow}
MaxOf(S) == CHOOSE k \in S : \A m \in S : m <= k
CarriedHigh(i) == IF PivotHighsTo(i) = {} THEN SlopeOf(0) ELSE SlopeOf(MaxOf(PivotHighsTo(i)))
CarriedLow(i) == IF PivotLowsTo(i) = {} THEN SlopeOf(0) ELSE SlopeOf(MaxOf(PivotLowsTo(i)))

\* C13: for n >= 30, upper[0] = high[0] and lower[0] = low[0]; for every i > 0,
\* upper[i] = high[i] if bar i is a pivot high, else upper[i-1] minus the carried
\* high slope; lower[i] = low[i] if bar i is a pivot low, else lower[i-1] plus
\* the carried low slope; the carried slope at i is atr[k] / 14 at the most
\* recent pivot bar k <= i of that side, slope[0] when there is none, and slope
\* is 0 where ATR is absent.
C13_TrendlineRecurrence ==
  Ran =>
    /\ Out(0).upper = SFix(Out(0).high)
    /\ Out(0).lower = SFix(Out(0).low)
    /\ \A i \in DOMAIN pivotData :
         i > 0 =>
           /\ ~Absent(Out(i).upper) /\ ~Absent(Out(i).lower)
           /\ IF Out(i).pivotHigh
              THEN SEq(Out(i).upper, SFix(Out(i).high))
              ELSE SEq(Out(i).upper, SSub(Out(i - 1).upper, CarriedHigh(i)))
           /\ IF Out(i).pivotLow
              THEN SEq(Out(i).lower, SFix(Out(i).low))
              ELSE SEq(Out(i).lower, SAdd(Out(i - 1).lower, CarriedLow(i)))

\* a bar after a pivot high and a pivot low whose ATR differs from the ATR at
\* those pivots, and whose bounds moved by the slopes carried from them
C13_Witness ==
  /\ Ran
  /\ \E i \in DOMAIN pivotData :
       /\ i > 0 /\ ~Out(i).pivotHigh /\ ~Out(i).pivotLow
       /\ PivotHighsTo(i) # {} /\ PivotLowsTo(i) # {}
       /\ MaxOf(PivotHighsTo(i)) # MaxOf(PivotLowsTo(i))
       /\ SlopeOf(i) # CarriedHigh(i) /\ SlopeOf(i) # CarriedLow(i)
       /\ CarriedHigh(i) # CarriedLow(i)
       /\ SEq(Out(i).upper, SSub(Out(i - 1).upper, CarriedHigh(i)))
       /\ SEq(Out(i).lower, SAdd(Out(i - 1).lower, CarriedLow(i)))

LowBelowHigh == \A i \in DOMAIN ohlcData : ohlcData[i].low <= ohlcData[i].high

\* C14: for bars with low <= high and n >= 30, on every bar i > 0 that is not a
\* pivot high upper[i] <= upper[i-1], and on every bar i > 0 that is not a pivot
\* low lower[i] >= lower[i-1].
C14_MonotoneDecay ==
  (Ran /\ LowBelowHigh) =>
    \A i \in DOMAIN pivotData :
      i > 0 =>
        /\ ~Out(i).pivotHigh => ~SLess(Out(i - 1).upper, Out(i).upper)
        /\ ~Out(i).pivotLow => ~SLess(Out(i).lower, Out(i - 1).lower)

\* between pivots the upper bound falls strictly and the lower bound rises
\* strictly
C14_Witness ==
  /\ Ran /\ LowBelowHigh
  /\ \E i \in DOMAIN pivotData :
       /\ i > 0 /\ ~Out(i).pivotHigh /\ ~Out(i).pivotLow
       /\ PivotHighsTo(i) # {} /\ PivotLowsTo(i) # {}
       /\ SLess(Out(i).upper, Out(i - 1).upper)
       /\ SLess(Out(i - 1).lower, Out(i).lower)

\* C15 as stated: for valid bars and n >= 30, at every pivot-high bar i
\* upper[i] = high[i] >= upper[i-1], and at every pivot-low bar i
\* lower[i] = low[i] <= lower[i-1].
C15_ResetsOutward ==
  (Ran /\ ValidBars) =>
    \A i \in DOMAIN pivotData :
      i > 0 =>
        /\ Out(i).pivotHigh =>
             /\ SEq(Out(i).upper, SFix(Out(i).high))
             /\ ~SLess(Out(i).upper, Out(i - 1).upper)
        /\ Out(i).pivotLow =>
             /\ SEq(Out(i).lower, SFix(Out(i).low))
             /\ ~SLess(Out(i - 1).lower, Out(i).lower)

\* C15, amended: for n >= 30, at every pivot-high bar i upper[i] = high[i] and
\* at every pivot-low bar i lower[i] = low[i], whatever the bound was on bar
\* i - 1: the reset can also be inward (upper[i-1] > high[i], lower[i-1] < low[i]).
C15_ResetsToPivot ==
  Ran =>
    \A i \in DOMAIN pivotData :
      /\ Out(i).pivotHigh => SEq(Out(i).upper, SFix(Out(i).high))
      /\ Out(i).pivotLow => SEq(Out(i).lower, SFix(Out(i).low))

\* valid bars with a pivot high below the upper bound of the bar before it
C15_Witness ==
  /\ Ran /\ ValidBars
  /\ \E i \in DOMAIN pivotData :
       /\ i > 0 /\ Out(i).pivotHigh
       /\ SLess(SFix(Out(i).high), Out(i - 1).upper)
       /\ SEq(Out(i).upper, SFix(Out(i).high))

\* bar i > 0 is not a pivot high and closes above upper[i-1]
BreaksUp(i) == i > 0 /\ ~Out(i).pivotHigh /\ ClosesAbove(i)
FirstBreakUp(i) == BreaksUp(i) /\ \A j \in 1..(i - 1) : ~BreaksUp(j)
RsiAbove70(i) == ~Absent(Out(i).rsi) /\ RsiGT(Out(i).rsi, 70)

C17_SignalsAreBreakouts ==
  Returned =>
    \A i \in DOMAIN pivotData :
      /\ Out(i).signal = "Buy" =>
           i > 0 /\ ~Out(i).pivotHigh /\ ClosesAbove(i)
      /\ Out(i).signal = "Sell" =>
           i > 0 /\ ~Out(i).pivotLow /\ ClosesBelow(i)

\* an output with a Buy and a Sell, and a pivot-low bar that closes below
\* lower[i-1] without a Sell
C17_Witness ==
  /\ Ran
  /\ \E i \in DOMAIN pivotData : Out(i).signal = "Buy" /\ ClosesAbove(i)
  /\ \E i \in DOMAIN pivotData : Out(i).signal = "Sell" /\ ClosesBelow(i)
  /\ \E i \in DOMAIN pivotData :
       i > 0 /\ Out(i).pivotLow /\ ClosesBelow(i) /\ Out(i).signal = "Hold"

\* C18: for every input, short or not, calculatePivotData returns exactly one
\* enriched bar per input bar, in the same order, element i carrying bar i's
\* datetime, open, high, low, close and volume unchanged.
C18_OutputAligned ==
  Returned =>
    /\ DOMAIN pivotData = DOMAIN ohlcData
    /\ \A i \in DOMAIN pivotData :
         /\ Out(i).datetime = ohlcData[i].datetime
         /\ Out(i).open = ohlcData[i].open
         /\ Out(i).high = ohlcData[i].high
         /\ Out(i).low = ohlcData[i].low
         /\ Out(i).close = ohlcData[i].close
         /\ Out(i).volume = ohlcData[i].volume

\* 30 bars or more whose highs, lows and closes are not all the same, returned
\* with a signal on a bar that carries that bar's datetime and close
C18_Witness ==
  /\ Ran
  /\ \E i, j \in DOMAIN ohlcData :
       /\ ohlcData[i].high # ohlcData[j].high
       /\ ohlcData[i].low # ohlcData[j].low
       /\ ohlcData[i].close # ohlcData[j].close
  /\ \E i \in DOMAIN pivotData :
       /\ Out(i).signal # "Hold"
       /\ Out(i).datetime = ohlcData[i].datetime
       /\ Out(i).close = ohlcData[i].close

ConstantClose == \A i, j \in DOMAIN ohlcData : ohlcData[i].close = ohlcData[j].close

RunsUp(i) == i > 1 /\ ClosesAbove(i - 1) /\ ClosesAbove(i)
RunsDown(i) == i > 1 /\ ClosesBelow(i - 1) /\ ClosesBelow(i)
NoTwoInARow ==
  \A i \in DOMAIN pivotData :
    i > 0 =>
      /\ ~(Out(i - 1).signal = "Buy" /\ Out(i).signal = "Buy")
      /\ ~(Out(i - 1).signal = "Sell" /\ Out(i).signal = "Sell")

\* C25 as stated: no two consecutive bars are both Buy and no two are both
\* Sell; within a run of consecutive bars that each close beyond the previous
\* bar's bound, only the first bar of the run can be Buy (Sell).
C25_EdgeTriggered ==
  Ran =>
    /\ NoTwoInARow
    /\ \A i \in DOMAIN pivotData :
         /\ RunsUp(i) => Out(i).signal # "Buy"
         /\ RunsDown(i) => Out(i).signal # "Sell"

\* C25, amended: no two consecutive bars are both Buy and no two are both Sell;
\* within a run of consecutive bars that each close beyond the previous bar's
\* bound, a bar that is not the first of the run can be Buy (Sell) only when
\* the bar before it is a pivot high (low), which takes a close above (below)
\* the pivot bar's high (low); with valid bars only the first bar of a run can
\* be Buy (Sell).
C25_EdgeTriggeredPivotAside ==
  Ran =>
    /\ NoTwoInARow
    /\ \A i \in DOMAIN pivotData :
         /\ (RunsUp(i) /\ Out(i).signal = "Buy") =>
              Out(i - 1).pivotHigh /\ ~ValidBars
         /\ (RunsDown(i) /\ Out(i).signal = "Sell") =>
              Out(i - 1).pivotLow /\ ~ValidBars

\* a run of closes above the bound through a pivot high, with a Buy on the
\* first bar of the run and another on the bar after the pivot
C25_Witness ==
  /\ Ran
  /\ \E i, j \in DOMAIN pivotData :
       /\ 1 < i /\ i < j - 1
       /\ \A k \in (i - 1)..j : k = i - 1 <=> ~ClosesAbove(k)
       /\ Out(i).signal = "Buy" /\ Out(j - 1).pivotHigh /\ Out(j).signal = "Buy"

\* C26: for n >= 30, upper[i] = high[0] at every index i before the first
\* pivot high (at every index when there is none), and lower[i] = low[0] at
\* every index i before the first pivot low: the carried slope starts from
\* slope[0], which is 0 as ATR is absent at index 0.
C26_FlatBeforeFirstPivot ==
  Ran =>
    /\ Absent(Out(0).atr)
    /\ \A i \in DOMAIN pivotData :
         /\ PivotHighsTo(i) = {} => SEq(Out(i).upper, SFix(Out(0).high))
         /\ PivotLowsTo(i) = {} => SEq(Out(i).lower, SFix(Out(0).low))

\* a first pivot high at bar k, the upper bound still at high[0] on bar k - 1
\* where ATR is defined and not 0, and off high[0] after it; no pivot low and the
\* lower bound at low[0] on the last bar
C26_Witness ==
  /\ Ran
  /\ \E k \in DOMAIN pivotData :
       /\ k > 0 /\ Out(k).pivotHigh /\ PivotHighsTo(k - 1) = {}
       /\ ~Absent(Out(k - 1).atr) /\ Out(k - 1).atr # <<>>
       /\ SEq(Out(k - 1).upper, SFix(Out(0).high))
       /\ ~SEq(Out(k + 1).upper, SFix(Out(0).high))
  /\ PivotLowsTo(Bars - 1) = {}
  /\ SEq(Out(Bars - 1).lower, SFix(Out(0).low))

\* C27: in the result of calculatePivotPoints any two distinct pivot-high
\* indices differ by more than `length`, and so do any two distinct pivot-low
\* indices.
C27_PivotSpacing ==
  Returned =>
    \A i, j \in DOMAIN ohlcData :
      i < j =>
        /\ (pivots.pivotHigh[i] /\ pivots.pivotHigh[j]) => j - i > length
        /\ (pivots.pivotLow[i] /\ pivots.pivotLow[j]) => j - i > length

\* two pivot highs exactly length + 1 apart, and two pivot lows
C27_Witness ==
  /\ Returned
  /\ \E i, j \in DOMAIN ohlcData :
       j - i = length + 1 /\ pivots.pivotHigh[i] /\ pivots.pivotHigh[j]
  /\ \E i, j \in DOMAIN ohlcData :
       i < j /\ pivots.pivotLow[i] /\ pivots.pivotLow[j]

\* C28: for every sequence of bars with finite prices, calculatePivotData of
\* api/trpc/[trpc].ts and of the bundled handler return the sequence that
\* calculatePivotData of the server returns, field for field.
C28_CopiesAgree ==
  pc = "returnBundled" => pivotDataApi = pivotData /\ pivotDataBundled = pivotData

\* a sequence with a pivot high, a pivot low, a Buy, and a breakout vetoed by
\* the RSI has gone through the three copies
C28_Witness ==
  /\ pc = "returnBundled"
  /\ Bars >= MIN_BARS
  /\ \E i \in 0..(Bars - 1) : Out(i).pivotHigh
  /\ \E i \in 0..(Bars - 1) : Out(i).pivotLow
  /\ \E i \in 0..(Bars - 1) : Out(i).signal = "Buy"
  /\ \E i \in 1..(Bars - 1) :
       Out(i).upos > Out(i - 1).upos /\ Out(i).signal = "Hold"

----------------------------------------------------------------------------
(* Properties of getLatestSignal *)

Summarised == pc = "summarised"
In(i) == pivotData[i]
ValidDistinctTimes ==
  \A i, j \in DOMAIN pivotData :
    /\ ~IsNaN(In(i).datetime)
    /\ i # j => In(i).datetime # In(j).datetime
\* the bar of S with the greatest timestamp
Latest(S) == CHOOSE i \in S : \A j \in S : In(j).datetime <= In(i).datetime
NotHold == {i \in DOMAIN pivotData : In(i).signal # "Hold"}

\* C12: for a non-empty enriched sequence with distinct timestamps, in any array
\* order, getLatestSignal returns as signal the signal of the bar with the
\* greatest timestamp, and as lastSignal, lastSignalTime and lastSignalPrice the
\* signal, datetime and close of the bar with the greatest timestamp among the
\* bars whose signal is not Hold, or Hold, null and null when every bar is Hold;
\* for an empty sequence it returns Hold, Hold, null, null.
C12_SignalSummary ==
  Summarised =>
    /\ Len0(pivotData) = 0 =>
         summary = [signal |-> "Hold", lastSignal |-> "Hold",
                    lastSignalTime |-> NULL, lastSignalPrice |-> NULL]
    /\ (Len0(pivotData) > 0 /\ ValidDistinctTimes) =>
         /\ summary.signal = In(Latest(DOMAIN pivotData)).signal
         /\ IF NotHold = {}
            THEN /\ summary.lastSignal = "Hold"
                 /\ summary.lastSignalTime = NULL
                 /\ summary.lastSignalPrice = NULL
            ELSE /\ summary.lastSignal = In(Latest(NotHold)).signal
                 /\ summary.lastSignalTime = Some(In(Latest(NotHold)).datetime)
                 /\ summary.lastSignalPrice = Some(In(Latest(NotHold)).close)

\* a summary of three or more bars given out of order, whose latest bar is Hold
\* and whose latest bar that is not Hold is neither first nor last in the array
C12_Witness ==
  /\ Summarised /\ ValidDistinctTimes /\ Len0(pivotData) >= 3
  /\ In(0).datetime < In(1).datetime
  /\ In(Latest(DOMAIN pivotData)).signal = "Hold"
  /\ NotHold # {}
  /\ Latest(NotHold) \notin {0, Len0(pivotData) - 1}
  /\ summary.lastSignalPrice = Some(In(Latest(NotHold)).close)

\* C20: calculatePivotData leaves its input bar array and every bar in it
\* unchanged, and getLatestSignal leaves the enriched array it is given in its
\* original order with unchanged elements.
C20_InputsNotMutated ==
  [][/\ ohlcData' = ohlcData
     /\ pc = "return" => pivotData' = pivotData]_vars

\* getLatestSignal has returned the signal of the last of 30 bars or more given
\* in ascending order of time, and the array is still in that order, bar for
\* bar as calculatePivotData returned it for the unchanged input
C20_Witness ==
  /\ Summarised /\ Bars >= 30
  /\ DOMAIN pivotData = DOMAIN ohlcData
  /\ \A i \in DOMAIN pivotData :
       /\ In(i).datetime = ohlcData[i].datetime
       /\ i > 0 => In(i - 1).datetime < In(i).datetime
  /\ ohlcData[0].high # ohlcData[Bars - 1].high
  /\ summary.signal = In(Bars - 1).signal
  /\ summary.lastSignal # "Hold"

----------------------------------------------------------------------------
(* Properties of calculateRSI, calculateATR and calculateAMA *)

ReturnedRSI == pc = "returnRSI"
\* No close up to bar i is lower than the close before it: every loss up to i,
\* and so the smoothed average loss at i, is zero.
NoLossTo(i) == \A j \in 1..i : ohlcData[j].close >= ohlcData[j - 1].close

\* C21: for every close sequence and period (of 1 or more), calculateRSI returns
\* an array of the same length, absent at every index < period (everywhere when
\* the length is <= period) and defined at every other index; a defined value
\* is a quotient with a non-zero denominator, lies in [0, 100], and is exactly
\* 100 when the smoothed average loss is zero.
C21_RsiRange ==
  ReturnedRSI =>
    /\ DOMAIN rsi = DOMAIN ohlcData
    /\ \A i \in DOMAIN rsi :
         IF i < length \/ Bars <= length
         THEN Absent(rsi[i])
         ELSE /\ ~Absent(rsi[i])
              /\ rsi[i][2] # <<>>
              /\ ~RsiLT(rsi[i], 0) /\ ~RsiGT(rsi[i], 100)
              /\ NoLossTo(i) => RsiIs(rsi[i], 100)

\* an rsi of exactly 100 on flat closes (no gain and no loss), then one
\* strictly between 0 and 100, with a period of 2 or more
C21_Witness ==
  /\ ReturnedRSI /\ length >= 2
  /\ \E i, j \in DOMAIN rsi :
       /\ length <= i /\ i < j
       /\ \A k \in 1..i : ohlcData[k].close = ohlcData[k - 1].close
       /\ RsiIs(rsi[i], 100)
       /\ RsiGT(rsi[j], 0) /\ RsiLT(rsi[j], 100)

ReturnedATR == pc = "returnATR"
\* The true range of bar i: high - low on bar 0, else the greatest of high - low,
\* |high - previous close| and |low - previous close|
TrCandidates(i) ==
  {ohlcData[i].high - ohlcData[i].low} \cup
  (IF i = 0 THEN {}
   ELSE {Abs(ohlcData[i].high - ohlcData[i - 1].close),
         Abs(ohlcData[i].low - ohlcData[i - 1].close)})
TrOf(i) == CHOOSE t \in TrCandidates(i) : \A u \in TrCandidates(i) : u <= t
RECURSIVE TrSum(_)
TrSum(i) == IF i < 0 THEN 0 ELSE TrOf(i) + TrSum(i - 1)

\* C22: for bars with low <= high, calculateATR is absent at every index
\* < period - 1, atr[period-1] is the arithmetic mean of the first `period` true
\* ranges, atr[i] = (atr[i-1] * (period - 1) + trueRange[i]) / period for
\* i >= period, and every defined value is >= 0 (every true range is).
C22_AtrRecurrence ==
  (ReturnedATR /\ LowBelowHigh) =>
    /\ DOMAIN atr = DOMAIN ohlcData
    /\ \A i \in DOMAIN atr :
         /\ TrOf(i) >= 0
         /\ i < length - 1 => Absent(atr[i])
         /\ i = length - 1 =>
              ~Absent(atr[i]) /\ BigMul(atr[i], length) = Fix(TrSum(length - 1))
         /\ i >= length =>
              /\ ~Absent(atr[i])
              /\ BigMul(atr[i], length) =
                   BigAdd(BigMul(atr[i - 1], length - 1), Fix(TrOf(i)))

\* a period of 2 or more, a bar past the first mean whose true range is the gap
\* from the previous close and not high - low, and an ATR that moved on it
C22_Witness ==
  /\ ReturnedATR /\ LowBelowHigh /\ length >= 2
  /\ \E i \in DOMAIN atr :
       /\ i >= length
       /\ TrOf(i) > ohlcData[i].high - ohlcData[i].low
       /\ atr[i] # atr[i - 1]
       /\ BigMul(atr[i], length) =
            BigAdd(BigMul(atr[i - 1], length - 1), Fix(TrOf(i)))

ReturnedAMA == pc = "returnAMA"

\* C24: calculateAMA returns an all-absent array when there are fewer closes
\* than the window, and otherwise a defined value at every index, those before
\* window - 1 included; so in the output of calculatePivotData for n >= 30 ama
\* is defined on every bar, while rsi is absent exactly for i < 14 and atr
\* exactly for i < 13.
C24_AmaPresence ==
  /\ ReturnedAMA =>
       /\ DOMAIN ama = DOMAIN ohlcData
       /\ \A i \in DOMAIN ama : Absent(ama[i]) <=> Bars < length
  /\ Ran =>
       \A i \in DOMAIN pivotData :
         /\ ~Absent(Out(i).ama)
         /\ Absent(Out(i).rsi) <=> i < 14
         /\ Absent(Out(i).atr) <=> i < 13

\* calculateAMA with a window of 2 or more and more closes than that: a value at
\* index 0 and at the last index
C24_Witness ==
  /\ ReturnedAMA /\ length >= 2 /\ Bars > length
  /\ ~Absent(ama[0]) /\ ~Absent(ama[Bars - 1])

----------------------------------------------------------------------------
(* Properties of the search history *)

History(userId) == GetRecent(searchHistoryStore, userId)
Letters(ticker) == [i \in DOMAIN ticker |-> ticker[i].letter]
UpperCased(ticker) == \A i \in DOMAIN ticker : ~ticker[i].lower
Holds(history, ticker) ==
  \E i \in 1..Len(history) : Letters(history[i].ticker) = Letters(ticker)
Without(history, ticker) ==
  SelectSeq(history, LAMBDA h : Letters(h.ticker) # Letters(ticker))
Added == request.procedure = "searchHistory.add"

\* after every call each history holds at most 10 entries, all in upper case,
\* none of them twice, and the ticker of an add is the first entry of its user
HistoryShape ==
  /\ \A u \in UserIds :
       /\ Len(History(u)) <= 10
       /\ \A i \in 1..Len(History(u)) : UpperCased(History(u)[i].ticker)
       /\ \A i, j \in 1..Len(History(u)) :
            Letters(History(u)[i].ticker) = Letters(History(u)[j].ticker) => i = j
  /\ Added =>
       /\ History(request.userId) # <<>>
       /\ Letters(History(request.userId)[1].ticker) = Letters(request.input)

\* an add of a ticker the history holds, in whatever case, moves the entry to
\* the front and leaves the others in their order
ReAddMoves ==
  \A u \in UserIds :
    (Added' /\ request'.userId = u /\ Holds(History(u), request'.input))
      => /\ Len(History(u)') = Len(History(u))
         /\ Letters(History(u)'[1].ticker) = Letters(request'.input)
         /\ Without(History(u)', request'.input) = Without(History(u), request'.input)

\* a call changes the history of its user only
OthersUntouched ==
  \A u \in UserIds : request'.userId # u => History(u)' = History(u)

\* C29: after any calls of searchHistory.add and searchHistory.clear by any
\* users, each user's history holds at most 10 entries, holds no upper-cased
\* ticker twice and has the ticker added last first; adding a ticker that is
\* in the history moves it to the front without changing the length; a call
\* of one user leaves the history of every other user as it was.
C29_SearchHistory == [](HistoryShape) /\ [][ReAddMoves /\ OthersUntouched]_vars

\* the first user's history is full, its oldest ticker was dropped, a ticker of
\* it has just been searched again in lower case, and the other user has a
\* history too
C29_Witness ==
  /\ Len(History(1)) = 10
  /\ ~Holds(History(1), Ticker(1, FALSE))
  /\ Added /\ request.userId = 1 /\ request.input[1].lower
  /\ ~InOrder(History(1))
  /\ Len(History(2)) >= 2

----------------------------------------------------------------------------
(* Properties of the alerts *)

AlertsOf(userId) == IF alertStore[userId].has THEN alertStore[userId].array ELSE <<>>
Active(userId) == GetActive(alertStore, userId)
Ids(alerts) == {alerts[i].id : i \in 1..Len(alerts)}
Called(procedure) == request.procedure = procedure

\* the ids of the store are those given out so far, grow along every array and
\* belong to one user each
AlertIdsShape ==
  /\ \A u \in UserIds :
       /\ \A i, j \in 1..Len(AlertsOf(u)) : i < j => AlertsOf(u)[i].id < AlertsOf(u)[j].id
       /\ \A id \in Ids(AlertsOf(u)) : 1 <= id /\ id < alertIdCounter
  /\ \A u, v \in UserIds : u # v => Ids(AlertsOf(u)) \cap Ids(AlertsOf(v)) = {}

\* create adds to the active alerts of its user one alert whose id is above
\* every id given out before
CreateAdds ==
  \A u \in UserIds :
    (Called("alerts.create")' /\ request'.userId = u) =>
      LET n == Len(Active(u))
      IN /\ Len(Active(u)') = n + 1
         /\ SubSeq(Active(u)', 1, n) = Active(u)
         /\ Active(u)'[n + 1].id = alertIdCounter
         /\ alertIdCounter' > alertIdCounter
         /\ \A v \in UserIds : \A id \in Ids(AlertsOf(v)) : id < Active(u)'[n + 1].id

\* dismiss and delete take the alert of that id, if the user has one, out of
\* the user's active alerts and leave the user's other active alerts
DismissAndDeleteRemove ==
  \A u \in UserIds :
    ((Called("alerts.dismiss")' \/ Called("alerts.delete")') /\ request'.userId = u) =>
      \E alertId \in {request'.input} :
        Active(u)' = SelectSeq(Active(u), LAMBDA a : a.id # alertId)

\* a call changes the alerts of its user only
OtherAlertsUntouched ==
  \A v \in UserIds : request'.userId # v => alertStore'[v] = alertStore[v]

\* an alert that is dismissed, or is no longer in the store, is active for no
\* user afterwards
NeverActiveAgain ==
  \A v \in UserIds : \A id \in Ids(Active(v)') :
    \/ id \in Ids(Active(v))
    \/ id = alertIdCounter /\ Called("alerts.create")' /\ request'.userId = v

\* C30: after any calls of alerts.create, alerts.dismiss and alerts.delete, the
\* ids of the alerts are unique over all users and grow in the order of
\* creation; the active alerts of a user are those the user created and has
\* not dismissed or deleted since; a dismiss or delete by another user with
\* the id of an alert leaves the alert as it is; a dismissed alert is never
\* active again.
C30_Alerts ==
  /\ [](AlertIdsShape)
  /\ [][CreateAdds /\ DismissAndDeleteRemove /\ OtherAlertsUntouched /\ NeverActiveAgain]_vars

\* the second user has just asked to dismiss an alert of the first user, which
\* is still active; the first user has a dismissed alert as well, and an alert
\* has been deleted
C30_Witness ==
  /\ Called("alerts.dismiss") /\ request.userId = 2
  /\ request.input \in Ids(Active(1))
  /\ Ids(AlertsOf(1)) # Ids(Active(1))
  /\ AlertsOf(2) # <<>>
  /\ \E id \in 1..(alertIdCounter - 1) : id \notin Ids(AlertsOf(1)) \cup Ids(AlertsOf(2))
====
